---- MODULE Spec2Model ----
(***************************************************************************)
(* A model of deepface/detectors/OpenCv.py: the OpenCvClient detector.     *)
(*                                                                         *)
(* Values.  None is the empty tuple.  A rectangle is <<x, y, w, h>>, a     *)
(* point is <<x, y>>.  An image (np.ndarray) is <<shape, rows, rot>>:      *)
(* shape = <<height, width>>, rows the pixel rows, and rot the rotation    *)
(* align_face applied to it (<<>> for an image that was never rotated).    *)
(* A file path is the sequence of its components.                          *)
(*                                                                         *)
(* The OpenCV cascades are external: what a cascade reports for a call is  *)
(* an input of the call, drawn from a bounded set.                         *)
(***************************************************************************)
EXTENDS Integers, Sequences, FiniteSets, TLC

\* ---------------------------------------------------------------- bounds
\* largest height of the images given to detect_faces
MaxH == 2
\* most candidates the face cascade reports in one call
MaxFaces == 2
\* most candidates the eye cascade reports in one call to find_eyes
MaxEyes == 3
\* width of the face images given directly to find_eyes
MaxEyeSpan == 2
\* threads calling detect_faces concurrently on one detector
NumThreads == 2

\* ---------------------------------------------------------------- values
None == <<>>

Min(a, b) == IF a < b THEN a ELSE b
Max(a, b) == IF a > b THEN a ELSE b
abs(a) == IF a < 0 THEN 0 - a ELSE a

\* int(v + d / 2) for non-negative integers v, d
int_half(v, d) == (2 * v + d) \div 2

\* an h x w image whose pixel at row r, column c (from 1) is (r-1)*w + c
MkImage(h, w) ==
    << <<h, w>>,
       [r \in 1..h |-> [c \in 1..w |-> (r - 1) * w + c]],
       None >>

shape(img) == img[1]

\* img[int(y) : int(y + h), int(x) : int(x + w)] with numpy's clamping of a
\* slice to the array's bounds
Crop(img, x, y, w, h) ==
    LET H  == shape(img)[1]
        W  == shape(img)[2]
        r0 == Min(y, H)
        r1 == Min(y + h, H)
        c0 == Min(x, W)
        c1 == Min(x + w, W)
        nr == Max(r1 - r0, 0)
        nc == Max(c1 - c0, 0)
    IN  << <<nr, nc>>,
           [r \in 1..nr |-> [c \in 1..nc |-> img[2][r0 + r][c0 + c]]],
           img[3] >>

\* ------------------------------------------------------- the model store
\* cv2.__file__, split at os.path.sep
opencv_home == <<"", "site-packages", "cv2", "__init__.py">>

RECURSIVE join_folders(_, _)
\* the loop of __get_opencv_path: path = path + "/" + folder
join_folders(path, folders) ==
    IF folders = <<>> THEN path
    ELSE join_folders(Append(path, Head(folders)), Tail(folders))

get_opencv_path ==
    LET folders == SubSeq(opencv_home, 1, Len(opencv_home) - 1)
        path    == join_folders(<<folders[1]>>, Tail(folders))
    IN  Append(path, "data")

face_detector_path == Append(get_opencv_path, "haarcascade_frontalface_default.xml")
eye_detector_path == Append(get_opencv_path, "haarcascade_eye.xml")

AssetPaths == {face_detector_path, eye_detector_path}

\* a ValueError whose arguments name the expected path
PathError(path) == <<"Confirm that opencv is installed on your environment! Expected path ", path, " violated.">>

\* __build_cascade: [raised, value]; raised is None or the error
build_cascade(files, model_name) ==
    IF model_name = "haarcascade" THEN
        IF face_detector_path \notin files
        THEN [raised |-> PathError(face_detector_path), value |-> None]
        ELSE [raised |-> None, value |-> face_detector_path]
    ELSE IF model_name = "haarcascade_eye" THEN
        IF eye_detector_path \notin files
        THEN [raised |-> PathError(eye_detector_path), value |-> None]
        ELSE [raised |-> None, value |-> eye_detector_path]
    ELSE [raised |-> <<"unimplemented model_name for build_cascade - ", <<model_name>>, "">>,
          value |-> None]

\* the detector dict; a key that was never set holds None
NoModel == [face_detector |-> None, eye_detector |-> None]

\* a build_model that keeps going when the eye cascade is missing
build_model_partial(files) ==
    LET f == build_cascade(files, "haarcascade")
        e == build_cascade(files, "haarcascade_eye")
    IN  IF f.raised # None THEN [raised |-> f.raised, value |-> NoModel]
        ELSE [raised |-> None,
              value |-> [face_detector |-> f.value, eye_detector |-> e.value]]

build_model(files) ==
    LET f == build_cascade(files, "haarcascade")
        e == build_cascade(files, "haarcascade_eye")
    IN  IF f.raised # None THEN [raised |-> f.raised, value |-> NoModel]
        ELSE IF e.raised # None THEN [raised |-> e.raised, value |-> NoModel]
        ELSE [raised |-> None,
              value |-> [face_detector |-> f.value, eye_detector |-> e.value]]

\* ------------------------------------------------------------- find_eyes
\* cv2.cvtColor(img, cv2.COLOR_BGR2GRAY): OpenCV rejects an empty source
cvtColor(img) ==
    IF shape(img)[1] = 0 \/ shape(img)[2] = 0
    THEN [raised |-> <<"cv2.error", "!_src.empty()">>, value |-> None]
    ELSE [raised |-> None, value |-> img]

\* self.model["eye_detector"].detectMultiScale(gray, 1.1, 10): eye_out is what
\* the cascade reports for this call
eye_detectMultiScale(model, gray, eye_out) ==
    IF model.eye_detector = None
    THEN [raised |-> <<"AttributeError", "detectMultiScale">>, value |-> <<>>]
    ELSE [raised |-> None, value |-> eye_out]

\* a sort key that forgets the height
eye_width(v) == abs(v[3])

\* the sort key lambda v: abs(v[2] * v[3])
eye_area(v) == abs(v[3] * v[4])

\* v put into s, which is sorted by area, largest first: after every element
\* that is at least as large (the sort is stable)
insert_desc(s, v) ==
    LET ahead == {i \in 1..Len(s) : eye_area(s[i]) >= eye_area(v)}
        k     == IF ahead = {} THEN 0 ELSE CHOOSE i \in ahead : \A j \in ahead : j <= i
    IN  SubSeq(s, 1, k) \o <<v>> \o SubSeq(s, k + 1, Len(s))

RECURSIVE sorted_desc(_)
\* sorted(eyes, key=..., reverse=True)
sorted_desc(eyes) ==
    IF eyes = <<>> THEN <<>>
    ELSE insert_desc(sorted_desc(SubSeq(eyes, 1, Len(eyes) - 1)), eyes[Len(eyes)])

\* the center of an eye rectangle, as find_eyes computes it
eye_center(e) == <<int_half(e[1], e[3]), int_half(e[2], e[4])>>

\* find_eyes past its guard. eye_calls counts the eye cascade's invocations,
\* chosen holds eye_1 and eye_2
find_eyes_body(model, img, eye_out) ==
    LET gray == cvtColor(img)
        det  == eye_detectMultiScale(model, gray.value, eye_out)
        eyes == sorted_desc(det.value)
    IN  IF gray.raised # None
        THEN [raised |-> gray.raised, left_eye |-> None, right_eye |-> None,
              eye_calls |-> 0, chosen |-> <<>>]
        ELSE IF det.raised # None
        THEN [raised |-> det.raised, left_eye |-> None, right_eye |-> None,
              eye_calls |-> 1, chosen |-> <<>>]
        ELSE IF Len(eyes) >= 2
        THEN LET eye_1 == eyes[1]
                 eye_2 == eyes[2]
                 left  == IF eye_1[1] < eye_2[1] THEN eye_1 ELSE eye_2
                 right == IF eye_1[1] < eye_2[1] THEN eye_2 ELSE eye_1
             IN  [raised |-> None, left_eye |-> eye_center(left),
                  right_eye |-> eye_center(right),
                  eye_calls |-> 1, chosen |-> <<eye_1, eye_2>>]
        ELSE [raised |-> None, left_eye |-> None, right_eye |-> None,
              eye_calls |-> 1, chosen |-> <<>>]

\* a find_eyes without the guard on a zero dimension
find_eyes_unguarded(model, img, eye_out) == find_eyes_body(model, img, eye_out)

find_eyes(model, img, eye_out) ==
    IF shape(img)[1] = 0 \/ shape(img)[2] = 0
    THEN [raised |-> None, left_eye |-> None, right_eye |-> None,
          eye_calls |-> 0, chosen |-> <<>>]
    ELSE find_eyes_body(model, img, eye_out)

\* ------------------------------------------------------------ align_face
\* detection.align_face: the image itself when an eye is missing, otherwise
\* the image rotated by the angle of the eye line, atan2(dy, dx); the shape
\* is kept
align_face(img, left_eye, right_eye) ==
    IF left_eye = None \/ right_eye = None THEN img
    ELSE <<img[1], img[2], <<right_eye[2] - left_eye[2], right_eye[1] - left_eye[1]>>>>

\* ---------------------------------------------------------- detect_faces
\* self.model["face_detector"].detectMultiScale3(img, 1.1, 10,
\* outputRejectLevels=True): face_out is what the cascade does for this call
face_detectMultiScale3(model, img, face_out) ==
    IF model.face_detector = None
    THEN [raised |-> <<"AttributeError", "detectMultiScale3">>, faces |-> <<>>, scores |-> <<>>]
    ELSE face_out

\* a detection step that lets the cascade's error escape
try_detect_propagate(model, img, face_out) == face_detectMultiScale3(model, img, face_out)

\* the try block with its bare except: faces stays [] when the search raises
try_detect(model, img, face_out) ==
    LET det == face_detectMultiScale3(model, img, face_out)
    IN  IF det.raised # None
        THEN [raised |-> None, faces |-> <<>>, scores |-> <<>>]
        ELSE [raised |-> None, faces |-> det.faces, scores |-> det.scores]

\* a crop that takes x for the rows and y for the columns
detected_face_swapped(img, x, y, w, h) == Crop(img, y, x, h, w)

\* detected_face = img[int(y) : int(y + h), int(x) : int(x + w)]
detected_face_of(img, x, y, w, h) == Crop(img, x, y, w, h)

\* one pass of the loop body for candidate i, acc being the call so far
loop_body(model, img, align, faces, scores, eye_outs, i, acc) ==
    LET f    == faces[i]
        crop == detected_face_of(img, f[1], f[2], f[3], f[4])
        fe   == find_eyes(model, crop, eye_outs[i])
    IN  IF ~align
        THEN [acc EXCEPT !.resp = Append(@, <<crop, f, scores[i]>>)]
        ELSE IF fe.raised # None
        THEN [acc EXCEPT !.raised = fe.raised,
                         !.eye_calls = @ + fe.eye_calls,
                         !.find_eyes_calls = @ + 1]
        ELSE [acc EXCEPT !.resp = Append(@, <<align_face(crop, fe.left_eye, fe.right_eye),
                                              f, scores[i]>>),
                         !.eye_calls = @ + fe.eye_calls,
                         !.find_eyes_calls = @ + 1]

RECURSIVE zip_loop(_, _, _, _, _, _, _, _)
\* for (x, y, w, h), confidence in zip(faces, scores): from candidate i on
zip_loop(model, img, align, faces, scores, eye_outs, i, acc) ==
    IF i > Min(Len(faces), Len(scores)) \/ acc.raised # None THEN acc
    ELSE zip_loop(model, img, align, faces, scores, eye_outs, i + 1,
                  loop_body(model, img, align, faces, scores, eye_outs, i, acc))

\* a loop that stops one candidate short
zip_loop_short(model, img, align, faces, scores, eye_outs, i, acc) ==
    zip_loop(model, img, align, SubSeq(faces, 1, Len(faces) - 1), scores, eye_outs, i, acc)

\* the loop over zip(faces, scores)
for_faces(model, img, align, faces, scores, eye_outs, i, acc) ==
    zip_loop(model, img, align, faces, scores, eye_outs, i, acc)

\* detect_faces: [raised, resp, eye_calls, find_eyes_calls]
detect_faces(model, img, align, face_out, eye_outs) ==
    LET det  == try_detect(model, img, face_out)
        acc0 == [raised |-> det.raised, resp |-> <<>>, eye_calls |-> 0, find_eyes_calls |-> 0]
    IN  IF det.raised # None THEN acc0
        ELSE IF Len(det.faces) > 0
        THEN for_faces(model, img, align, det.faces, det.scores, eye_outs, 1, acc0)
        ELSE acc0

\* ------------------------------------------------------------ the inputs
SeqsUpTo(S, n) == UNION {[1..k -> S] : k \in 0..n}

\* the rectangles with positive sides that lie inside an image
RectsIn(img) ==
    LET H == shape(img)[1]
        W == shape(img)[2]
    IN  {r \in (0..W) \X (0..H) \X (1..W) \X (1..H) :
            r[1] + r[3] <= W /\ r[2] + r[4] <= H}

\* the images given to detect_faces
Images == {MkImage(h, w) : h \in 0..MaxH, w \in {0, 2}}

\* the scores of n candidates: positive, pairwise different, and neither
\* rising nor falling along the candidate order (2, 1, 3, 4, ...)
ScoreSeqs(n) == {[i \in 1..n |-> IF i = 1 THEN 2 ELSE IF i = 2 THEN 1 ELSE i]}

\* what the face cascade may do with an image: raise, or report up to
\* MaxFaces candidates inside the image with one score each
FaceOuts(img) ==
    {[raised |-> <<"cv2.error", "detectMultiScale3">>, faces |-> <<>>, scores |-> <<>>]}
    \cup UNION {{[raised |-> None, faces |-> fs, scores |-> sc] :
                    fs \in [1..n -> RectsIn(img)], sc \in ScoreSeqs(n)} : n \in 0..MaxFaces}

\* what the eye cascade reports inside detect_faces, by kind: nothing, the
\* whole crop, or its two opposite corner pixels in either order
EyeKinds == 0..3

EyeSample(k, crop) ==
    LET h == shape(crop)[1]
        w == shape(crop)[2]
    IN  IF k = 0 \/ h = 0 \/ w = 0 THEN <<>>
        ELSE IF k = 1 THEN << <<0, 0, w, h>> >>
        ELSE IF k = 2 THEN << <<0, 0, 1, 1>>, <<w - 1, h - 1, 1, 1>> >>
        ELSE << <<w - 1, h - 1, 1, 1>>, <<0, 0, 1, 1>> >>

\* the face images given directly to find_eyes, and what the eye cascade
\* may report for each: up to MaxEyes rectangles inside it, in any order
EyeImages == {MkImage(h, w) : h \in {0, 2}, w \in {0, MaxEyeSpan}}

EyeOuts(img) == SeqsUpTo(RectsIn(img), MaxEyes)

\* ------------------------------------------------------------- the state
VARIABLES
    files,   \* the asset files present under the OpenCV data directory
    obj,     \* the detector object: "unbuilt", "built" or "failed"
    model,   \* self.model
    error,   \* the error __init__ raised, or None
    call,    \* the last call made on the detector, with what it returned
    thr      \* per thread, the locals of its detect_faces call and its position

vars == <<files, obj, model, error, call, thr>>

Threads == 1..NumThreads

NoCall ==
    [op |-> "none", img |-> None, align |-> FALSE,
     face_out |-> [raised |-> None, faces |-> <<>>, scores |-> <<>>],
     eye_outs |-> <<>>, raised |-> None, resp |-> <<>>,
     left_eye |-> None, right_eye |-> None, chosen |-> <<>>,
     eye_calls |-> 0, find_eyes_calls |-> 0]

NoLocals ==
    [pc |-> "idle", img |-> None, align |-> FALSE,
     face_out |-> [raised |-> None, faces |-> <<>>, scores |-> <<>>],
     eye_outs |-> <<>>, faces |-> <<>>, scores |-> <<>>, i |-> 0,
     detected_face |-> None, img_region |-> None,
     left_eye |-> None, right_eye |-> None, resp |-> <<>>, raised |-> None]

Init ==
    /\ thr = [t \in Threads |-> NoLocals]
    /\ files \in SUBSET AssetPaths
    /\ obj = "unbuilt"
    /\ model = NoModel
    /\ error = None
    /\ call = NoCall

\* OpenCvClient(): __init__ sets self.model, unless build_model raises
OpenCvClient_init ==
    /\ obj = "unbuilt"
    /\ LET b == build_model(files)
       IN  IF b.raised # None
           THEN /\ obj' = "failed"
                /\ error' = b.raised
                /\ model' = model
           ELSE /\ obj' = "built"
                /\ error' = None
                /\ model' = b.value
    /\ UNCHANGED <<files, call, thr>>

\* a call of detect_faces(img, align) on the built detector
Call_detect_faces ==
    /\ obj = "built"
    /\ call.op = "none"
    /\ \E img \in Images, align \in BOOLEAN :
       \E face_out \in FaceOuts(img), k \in IF align THEN EyeKinds ELSE {0} :
          LET fs       == face_out.faces
              eye_outs == [i \in 1..Len(fs) |->
                             EyeSample(k, Crop(img, fs[i][1], fs[i][2], fs[i][3], fs[i][4]))]
              r        == detect_faces(model, img, align, face_out, eye_outs)
          IN  call' = [NoCall EXCEPT !.op = "detect_faces", !.img = img, !.align = align,
                                     !.face_out = face_out, !.eye_outs = eye_outs,
                                     !.raised = r.raised, !.resp = r.resp,
                                     !.eye_calls = r.eye_calls,
                                     !.find_eyes_calls = r.find_eyes_calls]
    /\ UNCHANGED <<files, obj, model, error, thr>>

\* a call of find_eyes(img) on the built detector
Call_find_eyes ==
    /\ obj = "built"
    /\ call.op = "none"
    /\ \E img \in EyeImages :
       \E eye_out \in EyeOuts(img) :
          LET r == find_eyes(model, img, eye_out)
          IN  call' = [NoCall EXCEPT !.op = "find_eyes", !.img = img,
                                     !.eye_outs = <<eye_out>>,
                                     !.raised = r.raised,
                                     !.left_eye = r.left_eye, !.right_eye = r.right_eye,
                                     !.chosen = r.chosen, !.eye_calls = r.eye_calls,
                                     !.find_eyes_calls = 1]
    /\ UNCHANGED <<files, obj, model, error, thr>>

\* the caller takes the result; the detector is ready for its next call
Return ==
    /\ call.op # "none"
    /\ call' = NoCall
    /\ UNCHANGED <<files, obj, model, error, thr>>

Next ==
    \/ OpenCvClient_init
    \/ Call_detect_faces
    \/ Call_find_eyes
    \/ Return

Spec == Init /\ [][Next]_vars

\* ------------------------------------------- concurrent detect_faces calls
\* the calls the threads make: an image, the align flag, and what the face
\* cascade does for the call; the eye cascade reports two corner pixels
ConcCalls ==
    LET img == MkImage(2, 2)
        two == [raised |-> None, faces |-> << <<1, 0, 1, 2>>, <<0, 1, 2, 1>> >>,
                scores |-> <<2, 1>>]
        one == [raised |-> None, faces |-> << <<0, 0, 2, 2>> >>, scores |-> <<2>>]
        err == [raised |-> <<"cv2.error", "detectMultiScale3">>, faces |-> <<>>,
                scores |-> <<>>]
    IN  {<<img, TRUE, two>>, <<img, FALSE, two>>, <<img, TRUE, one>>, <<img, TRUE, err>>}

\* lines 52-57: the call starts, its locals are set
T_call(t) ==
    /\ obj = "built"
    /\ thr[t].pc = "idle"
    /\ \E c \in ConcCalls :
          LET fs == c[3].faces
          IN  thr' = [thr EXCEPT ![t] =
                 [NoLocals EXCEPT !.pc = "detect", !.img = c[1], !.align = c[2],
                                  !.face_out = c[3],
                                  !.eye_outs = [i \in 1..Len(fs) |->
                                      EyeSample(2, Crop(c[1], fs[i][1], fs[i][2], fs[i][3], fs[i][4]))],
                                  !.img_region = <<0, 0, shape(c[1])[2], shape(c[1])[1]>>]]
    /\ UNCHANGED <<files, obj, model, error, call>>

\* lines 58-68: the cascade search in its try block, then the test on faces
T_detect(t) ==
    /\ thr[t].pc = "detect"
    /\ LET det == try_detect(model, thr[t].img, thr[t].face_out)
       IN  thr' = [thr EXCEPT ![t].faces = det.faces, ![t].scores = det.scores,
                              ![t].i = 1,
                              ![t].pc = IF Len(det.faces) > 0 THEN "loop" ELSE "return"]
    /\ UNCHANGED <<files, obj, model, error, call>>

\* a crop kept on the detector, where every thread's call reads it
T_crop_shared(t) ==
    /\ thr[t].pc = "loop"
    /\ thr[t].i <= Min(Len(thr[t].faces), Len(thr[t].scores))
    /\ LET f    == thr[t].faces[thr[t].i]
           crop == detected_face_of(thr[t].img, f[1], f[2], f[3], f[4])
       IN  thr' = [u \in Threads |->
                     IF u = t
                     THEN [thr[u] EXCEPT !.detected_face = crop,
                                         !.pc = IF thr[t].align THEN "find_eyes" ELSE "append"]
                     ELSE [thr[u] EXCEPT !.detected_face = crop]]
    /\ UNCHANGED <<files, obj, model, error, call>>

\* lines 69-72: the next candidate is cropped
T_crop(t) ==
    /\ thr[t].pc = "loop"
    /\ thr[t].i <= Min(Len(thr[t].faces), Len(thr[t].scores))
    /\ LET f    == thr[t].faces[thr[t].i]
           crop == detected_face_of(thr[t].img, f[1], f[2], f[3], f[4])
       IN  thr' = [thr EXCEPT ![t].detected_face = crop,
                              ![t].pc = IF thr[t].align THEN "find_eyes" ELSE "append"]
    /\ UNCHANGED <<files, obj, model, error, call>>

\* line 73: find_eyes on the crop
T_find_eyes(t) ==
    /\ thr[t].pc = "find_eyes"
    /\ LET fe == find_eyes(model, thr[t].detected_face, thr[t].eye_outs[thr[t].i])
       IN  thr' = IF fe.raised # None
                  THEN [thr EXCEPT ![t].raised = fe.raised, ![t].pc = "done"]
                  ELSE [thr EXCEPT ![t].left_eye = fe.left_eye,
                                   ![t].right_eye = fe.right_eye,
                                   ![t].pc = "align"]
    /\ UNCHANGED <<files, obj, model, error, call>>

\* line 74: the crop is aligned
T_align(t) ==
    /\ thr[t].pc = "align"
    /\ thr' = [thr EXCEPT ![t].detected_face =
                              align_face(thr[t].detected_face, thr[t].left_eye, thr[t].right_eye),
                          ![t].pc = "append"]
    /\ UNCHANGED <<files, obj, model, error, call>>

\* lines 76-78: the entry is appended
T_append(t) ==
    /\ thr[t].pc = "append"
    /\ LET f == thr[t].faces[thr[t].i]
       IN  thr' = [thr EXCEPT ![t].img_region = f,
                              ![t].resp = Append(@, <<thr[t].detected_face, f,
                                                      thr[t].scores[thr[t].i]>>),
                              ![t].i = @ + 1,
                              ![t].pc = "loop"]
    /\ UNCHANGED <<files, obj, model, error, call>>

\* line 69, zip exhausted: the loop ends
T_loop_end(t) ==
    /\ thr[t].pc = "loop"
    /\ thr[t].i > Min(Len(thr[t].faces), Len(thr[t].scores))
    /\ thr' = [thr EXCEPT ![t].pc = "return"]
    /\ UNCHANGED <<files, obj, model, error, call>>

\* line 80: return resp
T_return(t) ==
    /\ thr[t].pc = "return"
    /\ thr' = [thr EXCEPT ![t].pc = "done"]
    /\ UNCHANGED <<files, obj, model, error, call>>

NextConc ==
    \/ OpenCvClient_init
    \/ \E t \in Threads : T_call(t)
    \/ \E t \in Threads : T_detect(t)
    \/ \E t \in Threads : T_crop(t)
    \/ \E t \in Threads : T_find_eyes(t)
    \/ \E t \in Threads : T_align(t)
    \/ \E t \in Threads : T_append(t)
    \/ \E t \in Threads : T_loop_end(t)
    \/ \E t \in Threads : T_return(t)

SpecConc == Init /\ [][NextConc]_vars

\* ------------------------------------------------------------ properties
DetectReturned == call.op = "detect_faces"
FindEyesReturned == call.op = "find_eyes"
ZeroDimension(img) == shape(img)[1] = 0 \/ shape(img)[2] = 0

\* the face cascade's outcome "no candidates"
NoCandidates == [raised |-> None, faces |-> <<>>, scores |-> <<>>]

\* the pixels of img in rows y..y+h-1 and columns x..x+w-1, for a region
\* inside the image
RegionPixels(img, reg) ==
    << <<reg[4], reg[3]>>,
       [r \in 1..reg[4] |-> [c \in 1..reg[3] |-> img[2][reg[2] + r][reg[1] + c]]],
       None >>

\* the orders in which the same candidates can be reported
Reorderings(s) ==
    {[i \in 1..Len(s) |-> s[f[i]]] :
        f \in {g \in [1..Len(s) -> 1..Len(s)] : \A a, b \in 1..Len(s) : g[a] = g[b] => a = b}}

\* C1: when the face cascade yields zero candidates for an image of width W
\* and height H, detect_faces returns exactly one entry, whose region is
\* (0, 0, W, H) and whose face is absent.
C1_FallbackEntry ==
    (DetectReturned /\ call.face_out.raised = None /\ Len(call.face_out.faces) = 0)
    => /\ call.raised = None
       /\ Len(call.resp) = 1
       /\ call.resp[1][2] = <<0, 0, shape(call.img)[2], shape(call.img)[1]>>
       /\ call.resp[1][1] = None

\* C2: when the face cascade search raises, no error escapes detect_faces and
\* the call returns what it returns for zero candidates, with align and without.
C2_ErrorAsNoCandidates ==
    (DetectReturned /\ call.face_out.raised # None)
    => /\ call.raised = None
       /\ call.resp = detect_faces(model, call.img, call.align, NoCandidates, <<>>).resp

C2_Witness ==
    /\ DetectReturned
    /\ call.face_out.raised # None
    /\ call.align
    /\ ~ZeroDimension(call.img)

\* C3: when the face cascade returns n >= 1 candidates, detect_faces returns
\* exactly n entries in the cascade's order, entry i carrying candidate i's
\* region and score.
C3_CandidateOrder ==
    (DetectReturned /\ call.face_out.raised = None /\ Len(call.face_out.faces) >= 1)
    => /\ call.raised = None
       /\ Len(call.resp) = Len(call.face_out.faces)
       /\ \A i \in 1..Len(call.face_out.faces) :
             /\ call.resp[i][2] = call.face_out.faces[i]
             /\ call.resp[i][3] = call.face_out.scores[i]

C3_Witness ==
    /\ DetectReturned
    /\ Len(call.face_out.faces) = MaxFaces
    /\ Len(call.resp) = MaxFaces
    /\ call.resp[1][2][1] > call.resp[2][2][1]
    /\ call.resp[1][3] > call.resp[2][3]

\* C4: construction is all-or-nothing: with either asset file absent it fails
\* with an error naming the missing path and no model store is held; a built
\* detector holds both classifiers.
C4_AllOrNothing ==
    /\ (obj # "unbuilt" /\ files # AssetPaths)
       => /\ obj = "failed"
          /\ error # None
          /\ error[2] \in AssetPaths \ files
          /\ model = NoModel
    /\ obj = "built"
       => /\ model.face_detector = face_detector_path
          /\ model.eye_detector = eye_detector_path

C4_Witness ==
    /\ obj = "failed"
    /\ files = {face_detector_path}
    /\ error = PathError(eye_detector_path)

\* C5: find_eyes returns (None, None) without raising whenever the eye cascade
\* yields fewer than two candidates, and on a face image with a zero height or
\* width it returns (None, None) without invoking the eye cascade.
C5_NoEyes ==
    FindEyesReturned
    => /\ Len(call.eye_outs[1]) < 2
          => /\ call.raised = None
             /\ call.left_eye = None
             /\ call.right_eye = None
       /\ ZeroDimension(call.img)
          => /\ call.raised = None
             /\ call.left_eye = None
             /\ call.right_eye = None
             /\ call.eye_calls = 0

C5_Witness ==
    /\ FindEyesReturned
    /\ Len(call.eye_outs[1]) = 1
    /\ call.eye_calls = 1
    /\ call.left_eye = None

\* C6: for every pair find_eyes returns, the left eye's center x is strictly
\* less than the right eye's center x.
C6_LeftOfRight ==
    (FindEyesReturned /\ call.left_eye # None /\ call.right_eye # None)
    => call.left_eye[1] < call.right_eye[1]

\* C8: with two or more eye candidates, the rectangles whose centers find_eyes
\* returns are two of the candidates, and no other candidate has a larger area
\* than either of them.
C8_TwoLargest ==
    (FindEyesReturned /\ ~ZeroDimension(call.img) /\ Len(call.eye_outs[1]) >= 2)
    => /\ Len(call.chosen) = 2
       /\ {call.left_eye, call.right_eye}
            = {eye_center(call.chosen[1]), eye_center(call.chosen[2])}
       /\ \E i, j \in 1..Len(call.eye_outs[1]) :
             /\ i # j
             /\ call.eye_outs[1][i] = call.chosen[1]
             /\ call.eye_outs[1][j] = call.chosen[2]
             /\ \A k \in 1..Len(call.eye_outs[1]) \ {i, j} :
                   /\ call.eye_outs[1][k][3] * call.eye_outs[1][k][4]
                        <= call.chosen[1][3] * call.chosen[1][4]
                   /\ call.eye_outs[1][k][3] * call.eye_outs[1][k][4]
                        <= call.chosen[2][3] * call.chosen[2][4]

C8_Witness ==
    /\ FindEyesReturned
    /\ Len(call.eye_outs[1]) = 3
    /\ call.eye_outs[1][1][3] * call.eye_outs[1][1][4]
         < call.eye_outs[1][2][3] * call.eye_outs[1][2][4]
    /\ call.eye_outs[1][2][3] * call.eye_outs[1][2][4]
         < call.eye_outs[1][3][3] * call.eye_outs[1][3][4]
    /\ call.left_eye # None

\* C9: find_eyes returns the same (left, right) pair for every order in which
\* the eye cascade may report the same candidates.
C9_OrderIndependent ==
    FindEyesReturned
    => \A p \in Reorderings(call.eye_outs[1]) :
          LET r == find_eyes(model, call.img, p)
          IN  r.left_eye = call.left_eye /\ r.right_eye = call.right_eye

\* C10: every entry's face comes from the crop of the source image at the
\* entry's own region: without align it is that crop and the eye cascade is
\* never invoked; with align it is that crop passed once through find_eyes and
\* align_face.
C10_FaceFromRegion ==
    (DetectReturned /\ call.raised = None)
    => /\ \A i \in 1..Len(call.resp) :
             LET crop == RegionPixels(call.img, call.resp[i][2])
                 fe   == find_eyes(model, crop, call.eye_outs[i])
             IN  IF call.align
                 THEN call.resp[i][1] = align_face(crop, fe.left_eye, fe.right_eye)
                 ELSE call.resp[i][1] = crop
       /\ call.find_eyes_calls = (IF call.align THEN Len(call.resp) ELSE 0)
       /\ call.eye_calls = (IF call.align THEN Len(call.resp) ELSE 0)

C10_Witness ==
    /\ DetectReturned
    /\ call.align
    /\ Len(call.resp) = MaxFaces
    /\ call.resp[1][2] = <<1, 0, 1, 2>>
    /\ call.resp[1][1][3] # None
    /\ call.resp[1][1][2] = <<<<2>>, <<4>>>>

\* C7: the model store is never modified after construction, and every
\* detect_faces call that runs interleaved with others on the same detector
\* returns what the same call returns when it runs alone.
C7_CallsIndependent ==
    /\ obj = "built" => model = build_model(files).value
    /\ \A t \in Threads :
          thr[t].pc = "done"
          => LET alone == detect_faces(model, thr[t].img, thr[t].align,
                                       thr[t].face_out, thr[t].eye_outs)
             IN  thr[t].resp = alone.resp /\ thr[t].raised = alone.raised

C7_Witness ==
    /\ \A t \in Threads : thr[t].pc = "done"
    /\ thr[1].align
    /\ Len(thr[1].resp) = 2
    /\ \E t \in Threads : ~thr[t].align /\ Len(thr[t].resp) = 2
====
